---- MODULE Spec2Model ----
(***************************************************************************)
(* Model of script.js: the attack-surface table (header row and body rows  *)
(* of text cells), the error region, the add-row click handler and the     *)
(* asynchronous submit click handler, split at its two await points        *)
(* (await fetch, await res.json).                                          *)
(*                                                                         *)
(* A text is a sequence of atoms (short strings); the atoms " ", "\t" and  *)
(* "\n" are white space.  JavaScript indices are 0-based, the sequences    *)
(* here 1-based: row index i of the code is rows[i + 1], cells[2] and      *)
(* cells[3] of the code are cells[3] and cells[4].                         *)
(***************************************************************************)
EXTENDS Integers, Sequences, FiniteSets, TLC

\* Bounds of the model.
MaxRows == 2
MaxSubmits == 2
MaxEdits == 1
MaxEntries == 2

VARIABLES
  headCells,   \* table.tHead.rows[0].cells.length
  rows,        \* table.tBodies[0].rows: sequence of [cells: sequence of texts]
  errorText,   \* errorDiv.textContent
  subs,        \* the invocations of the submit handler that got past the key check:
               \* pc, the locals apiKey, rows, res.ok, and what it wrote to the table
  requests,    \* the requests handed to fetch, in order
  keyClicks,   \* number of submit clicks made with a non-blank key field
  edits,       \* number of cell edits made by the user
  blankLatest, \* the most recent submit click found the key field blank
  last         \* the handler step taken last

vars == <<headCells, rows, errorText, subs, requests, keyClicks, edits, blankLatest, last>>

----------------------------------------------------------------------------
\* Texts

EmptyText == <<>>

IsSpace(a) == a \in {" ", "\t", "\n"}

RECURSIVE TrimLeft(_)
TrimLeft(s) == IF s # <<>> /\ IsSpace(Head(s)) THEN TrimLeft(Tail(s)) ELSE s

RECURSIVE TrimRight(_)
TrimRight(s) ==
  IF s # <<>> /\ IsSpace(s[Len(s)]) THEN TrimRight(SubSeq(s, 1, Len(s) - 1)) ELSE s

\* A key check that forgets String.prototype.trim.
trimNone(s) == s

\* String.prototype.trim
trim(s) == TrimRight(TrimLeft(s))

\* Array.prototype.join('\n') over a sequence of texts
RECURSIVE joinNL(_)
joinNL(ss) ==
  IF ss = <<>> THEN EmptyText
  ELSE IF Len(ss) = 1 THEN ss[1]
  ELSE ss[1] \o <<"\n">> \o joinNL(Tail(ss))

\* Number.prototype.toString for the row indices of the model
DigitAtoms == <<"0", "1", "2", "3", "4", "5", "6", "7", "8", "9">>
ToText(n) == IF n < 10 THEN <<DigitAtoms[n + 1]>> ELSE <<DigitAtoms[(n \div 10) + 1], DigitAtoms[(n % 10) + 1]>>

----------------------------------------------------------------------------
\* The taxonomy and the prompt

categories ==
  << "information_leakage", "data_integrity_violation", "control_plane_subversion",
     "denial_of_service", "illegitimate_use", "entity_spoofing", "forgery",
     "bypassing_control", "authorization_violation", "trojan", "guessing",
     "repudiation" >>

\* A snapshot that reads the whole row text into the description, the type
\* cell included.
SnapshotWithThreats(rs) ==
  [i \in 1..Len(rs) |->
     [index |-> i - 1, surface |-> trim(rs[i].cells[1]),
      description |-> trim(rs[i].cells[2] \o (IF Len(rs[i].cells) >= 4 THEN rs[i].cells[3] ELSE <<>>))]]

\* rows = Array.from(table.tBodies[0].rows).map((tr, idx) => ({index, surface, description}))
Snapshot(rs) ==
  [i \in 1..Len(rs) |->
     [index |-> i - 1, surface |-> trim(rs[i].cells[1]), description |-> trim(rs[i].cells[2])]]

\* `#${r.index}: ${r.surface} - ${r.description}`
PromptLine(r) == <<"#">> \o ToText(r.index) \o <<": ">> \o r.surface \o <<" - ">> \o r.description

\* The two variable parts of the prompt: the category ids and the joined surface lines.
PromptOf(snap) ==
  [taxonomy |-> categories,
   surfaces |-> joinNL([i \in 1..Len(snap) |-> PromptLine(snap[i])])]

DefaultEndpoint == "https://api.openai.com/v1/responses"

\* The request handed to fetch.
RequestOf(apiKey, snap) ==
  [url |-> DefaultEndpoint, auth |-> <<"Bearer", " ">> \o apiKey, input |-> PromptOf(snap)]

\* A handler that issues the request twice (a retry).
fetchTwice(reqs, req) == Append(Append(reqs, req), req)

\* fetch(...): one request is issued.
fetch(reqs, req) == Append(reqs, req)

----------------------------------------------------------------------------
\* What the endpoint may answer

T1 == [type |-> <<"forgery">>, description |-> <<"x">>]
T2 == [type |-> <<"not_a_category">>, description |-> <<"y">>]
T3 == [type |-> <<"trojan">>, description |-> <<"supply chain risk">>]

ThreatLists == { <<>>, <<T1>>, <<T2, T3>> }

\* An entry of the parsed list; hasThreats = FALSE: the entry has no threats list.
\* An entry without threats throws whatever its index, and an entry with index
\* MaxRows names no row whatever its threats: one entry stands for each kind.
\* The entries for row 0 carry every list of ThreatLists, the entries for the
\* rows after it the list <<T1>>.
Entries ==
  [index : {0}, hasThreats : {TRUE}, threats : ThreatLists]
  \cup [index : 1..(MaxRows - 1), hasThreats : {TRUE}, threats : {<<T1>>}]
  \cup {[index |-> MaxRows, hasThreats |-> TRUE, threats |-> <<T1>>],
        [index |-> 0, hasThreats |-> FALSE, threats |-> <<>>]}

RECURSIVE SeqsUpTo(_, _)
SeqsUpTo(S, n) ==
  IF n = 0 THEN {<<>>}
  ELSE LET shorter == SeqsUpTo(S, n - 1)
       IN shorter \cup {Append(s, x) : s \in {t \in shorter : Len(t) = n - 1}, x \in S}

\* The payload text: valid = FALSE when JSON.parse throws on it; isArray = FALSE
\* when it parses to a JSON object.
NotJson == [valid |-> FALSE, isArray |-> FALSE, items |-> <<>>]
JsonObject == [valid |-> TRUE, isArray |-> FALSE, items |-> <<>>]
JsonArray(items) == [valid |-> TRUE, isArray |-> TRUE, items |-> items]

Payloads == {NotJson, JsonObject} \cup {JsonArray(s) : s \in SeqsUpTo(Entries, MaxEntries)}

\* The value res.json() resolves to.  isNull: the body is the JSON null;
\* message: data.error.message ("" when absent); hasOutput: data.output[0].content[0].text exists.
NullData == [isNull |-> TRUE, message |-> "", hasOutput |-> FALSE, text |-> NotJson]
ErrorData(m) == [isNull |-> FALSE, message |-> m, hasOutput |-> FALSE, text |-> NotJson]
OutputData(p) == [isNull |-> FALSE, message |-> "", hasOutput |-> TRUE, text |-> p]

ProviderMessages == {"", "Rate limit exceeded"}

ErrorBodies == {NullData} \cup {ErrorData(m) : m \in ProviderMessages}

\* The bodies a response with res.ok = ok may carry: an error body, and under
\* a success status also a body with an output text.
DataValues(ok) == IF ok THEN ErrorBodies \cup {OutputData(p) : p \in Payloads} ELSE ErrorBodies

----------------------------------------------------------------------------
\* The synchronous tail of the submit handler, from `if (!res.ok)` to the catch

NoThrow == [threw |-> FALSE, message |-> ""]

\* An error whose message is lost on the way to the catch.
ThrowSilent(m) == [threw |-> TRUE, message |-> ""]

Throw(m) == [threw |-> TRUE, message |-> m]

\* A column insertion that rebuilds every body row with four empty cells.
InsertOutputCellsFresh(rs) ==
  [i \in 1..Len(rs) |-> [cells |-> <<EmptyText, EmptyText, EmptyText, EmptyText>>]]

\* tr.insertCell(2); tr.insertCell(3) on every body row
InsertOutputCells(rs) ==
  [i \in 1..Len(rs) |->
     [cells |-> <<rs[i].cells[1], rs[i].cells[2], EmptyText, EmptyText>>
                \o SubSeq(rs[i].cells, 3, Len(rs[i].cells))]]

\* An iteration that writes the descriptions into the type cell and the types
\* into the description cell.
ApplyItemSwapped(rs, item) ==
  IF ~item.hasThreats \/ item.index + 1 \notin 1..Len(rs) \/ Len(rs[item.index + 1].cells) < 4
    THEN [rows |-> rs, err |-> Throw("TypeError"), wrote |-> FALSE]
  ELSE LET types == joinNL([k \in 1..Len(item.threats) |-> item.threats[k].type])
           descs == joinNL([k \in 1..Len(item.threats) |-> item.threats[k].description])
           tr == rs[item.index + 1]
       IN [rows |-> [rs EXCEPT ![item.index + 1] =
                       [cells |-> <<tr.cells[1], tr.cells[2], descs, types>>]],
           err |-> NoThrow, wrote |-> TRUE]

\* An iteration that rejects a threat whose type is not a taxonomy id.
ApplyItemValidated(rs, item) ==
  IF ~item.hasThreats \/ item.index + 1 \notin 1..Len(rs) \/ Len(rs[item.index + 1].cells) < 4
    THEN [rows |-> rs, err |-> Throw("TypeError"), wrote |-> FALSE]
  ELSE IF \E k \in 1..Len(item.threats) :
            \A c \in 1..Len(categories) : item.threats[k].type # <<categories[c]>>
    THEN [rows |-> rs, err |-> Throw("Unknown threat category"), wrote |-> FALSE]
  ELSE LET types == joinNL([k \in 1..Len(item.threats) |-> item.threats[k].type])
           descs == joinNL([k \in 1..Len(item.threats) |-> item.threats[k].description])
           tr == rs[item.index + 1]
       IN [rows |-> [rs EXCEPT ![item.index + 1] =
                       [cells |-> <<tr.cells[1], tr.cells[2], types, descs>>]],
           err |-> NoThrow, wrote |-> TRUE]

\* An iteration that appends the new lines to what the two cells already hold.
ApplyItemMerge(rs, item) ==
  IF ~item.hasThreats \/ item.index + 1 \notin 1..Len(rs) \/ Len(rs[item.index + 1].cells) < 4
    THEN [rows |-> rs, err |-> Throw("TypeError"), wrote |-> FALSE]
  ELSE LET types == joinNL([k \in 1..Len(item.threats) |-> item.threats[k].type])
           descs == joinNL([k \in 1..Len(item.threats) |-> item.threats[k].description])
           tr == rs[item.index + 1]
           merged(old, new) == IF old = EmptyText THEN new ELSE old \o <<"\n">> \o new
       IN [rows |-> [rs EXCEPT ![item.index + 1] =
                       [cells |-> <<tr.cells[1], tr.cells[2],
                                    merged(tr.cells[3], types), merged(tr.cells[4], descs)>>]],
           err |-> NoThrow, wrote |-> TRUE]

\* One iteration of parsed.forEach: the row lookup, the two joins, the two writes.
\* The result is the rows afterwards and what the iteration threw.
ApplyItem(rs, item) ==
  IF ~item.hasThreats
    THEN [rows |-> rs, err |-> Throw("Cannot read properties of undefined (reading 'map')"),
          wrote |-> FALSE]
  ELSE IF item.index + 1 \notin 1..Len(rs)
    THEN [rows |-> rs, err |-> Throw("Cannot read properties of undefined (reading 'cells')"),
          wrote |-> FALSE]
  ELSE IF Len(rs[item.index + 1].cells) < 4
    THEN [rows |-> rs, err |-> Throw("Cannot set properties of undefined (setting 'innerText')"),
          wrote |-> FALSE]
  ELSE LET types == joinNL([k \in 1..Len(item.threats) |-> item.threats[k].type])
           descs == joinNL([k \in 1..Len(item.threats) |-> item.threats[k].description])
           tr == rs[item.index + 1]
       IN [rows |-> [rs EXCEPT ![item.index + 1] =
                       [cells |-> <<tr.cells[1], tr.cells[2], types, descs>>]],
           err |-> NoThrow, wrote |-> TRUE]

\* parsed.forEach(item => ...): the iterations in order, ended by the first throw.
\* written: the row positions written, in the order of the writes.
RECURSIVE ApplyItems(_, _, _)
ApplyItems(rs, items, written) ==
  IF items = <<>> THEN [rows |-> rs, err |-> NoThrow, written |-> written]
  ELSE LET one == ApplyItem(rs, Head(items))
       IN IF one.err.threw
            THEN [rows |-> one.rows, err |-> one.err, written |-> written]
            ELSE ApplyItems(one.rows, Tail(items), Append(written, Head(items).index + 1))

\* A message that drops the provider's text.
ErrorMessageGeneric(data) == "Request failed"

\* data.error?.message || 'Request failed'
ErrorMessageOf(data) ==
  IF data.isNull THEN "Cannot read properties of null (reading 'error')"
  ELSE IF data.message # "" THEN data.message
  ELSE "Request failed"

Result(h, rs, err, written) == [head |-> h, rows |-> rs, err |-> err, written |-> written]

\* A handler that inserts the output columns before it parses the payload.
HandleDataEagerHeader(ok, data, h, rs) ==
  IF ~ok THEN Result(h, rs, Throw(ErrorMessageOf(data)), <<>>)
  ELSE LET h2 == IF h = 2 THEN 4 ELSE h
           rs2 == IF h = 2 THEN InsertOutputCells(rs) ELSE rs
       IN IF data.isNull \/ ~data.hasOutput \/ ~data.text.valid
            THEN Result(h2, rs2, Throw("Failed to parse AI response."), <<>>)
          ELSE IF ~data.text.isArray
            THEN Result(h2, rs2, Throw("parsed.forEach is not a function"), <<>>)
            ELSE LET a == ApplyItems(rs2, data.text.items, <<>>)
                 IN Result(h2, a.rows, a.err, a.written)

\* Lines 70-96: the status check, the parse of the payload, the header
\* columns, the application of the entries.
HandleData(ok, data, h, rs) ==
  IF ~ok THEN Result(h, rs, Throw(ErrorMessageOf(data)), <<>>)
  ELSE IF data.isNull \/ ~data.hasOutput \/ ~data.text.valid
    THEN Result(h, rs, Throw("Failed to parse AI response."), <<>>)
  ELSE LET h2 == IF h = 2 THEN 4 ELSE h
           rs2 == IF h = 2 THEN InsertOutputCells(rs) ELSE rs
       IN IF ~data.text.isArray
            THEN Result(h2, rs2, Throw("parsed.forEach is not a function"), <<>>)
            ELSE LET a == ApplyItems(rs2, data.text.items, <<>>)
                 IN Result(h2, a.rows, a.err, a.written)

----------------------------------------------------------------------------
\* State and steps

NoData == ErrorData("")

\* The handler step taken last: its name, the invocation it belongs to (0: none),
\* the status and body of the response it handled, the key field it read.
\* threw: the step ended in the catch (or in the missing-key return);
\* override: the endpoint override the user supplied with the click ("": none).
Step(op, sub, ok, data) ==
  [op |-> op, sub |-> sub, ok |-> ok, data |-> data, field |-> <<>>, threw |-> FALSE,
   override |-> ""]

\* What an invocation left in the output cells of the rows it wrote: for each
\* row position in written, the two cells as the invocation's last write set them.
WrittenCells(written, rs) ==
  [k \in {written[j] : j \in 1..Len(written)} |-> <<rs[k].cells[3], rs[k].cells[4]>>]

\* A handler invocation that has returned: its locals are gone; written keeps
\* what it wrote.
Returned(written) ==
  [pc |-> "done", apiKey |-> <<>>, rows |-> <<>>, ok |-> FALSE, written |-> written,
   threw |-> FALSE]

\* An invocation that has returned through the catch.
Failed(written) == [Returned(written) EXCEPT !.threw = TRUE]

Init ==
  /\ headCells = 2
  /\ rows = <<>>
  /\ errorText = ""
  /\ subs = <<>>
  /\ requests = <<>>
  /\ keyClicks = 0
  /\ edits = 0
  /\ blankLatest = FALSE
  /\ last = Step("init", 0, FALSE, NoData)

\* An add-row handler that inserts the new row before the others
\* (insertRow(0)).
AddRowFirst ==
  /\ Len(rows) < MaxRows
  /\ rows' = <<[cells |-> IF headCells > 2
                            THEN <<EmptyText, EmptyText, EmptyText, EmptyText>>
                            ELSE <<EmptyText, EmptyText>>]>> \o rows
  /\ last' = Step("addRow", 0, FALSE, NoData)
  /\ UNCHANGED <<headCells, errorText, subs, requests, keyClicks, edits, blankLatest>>

\* An add-row handler without the check of the header's width.
AddRowTwoCells ==
  /\ Len(rows) < MaxRows
  /\ rows' = Append(rows, [cells |-> <<EmptyText, EmptyText>>])
  /\ last' = Step("addRow", 0, FALSE, NoData)
  /\ UNCHANGED <<headCells, errorText, subs, requests, keyClicks, edits, blankLatest>>

\* addRowBtn click handler
AddRow ==
  /\ Len(rows) < MaxRows
  /\ rows' = Append(rows, [cells |-> IF headCells > 2
                                       THEN <<EmptyText, EmptyText, EmptyText, EmptyText>>
                                       ELSE <<EmptyText, EmptyText>>])
  /\ last' = Step("addRow", 0, FALSE, NoData)
  /\ UNCHANGED <<headCells, errorText, subs, requests, keyClicks, edits, blankLatest>>

CellTexts == { <<" ", "api", " ">> }

\* The user types into one of the two contenteditable cells of a row.
EditCell(r, c, t) ==
  /\ edits < MaxEdits
  /\ r \in 1..Len(rows)
  /\ c \in {1, 2}
  /\ rows' = [rows EXCEPT ![r].cells[c] = t]
  /\ edits' = edits + 1
  /\ last' = Step("editCell", 0, FALSE, NoData)
  /\ UNCHANGED <<headCells, errorText, subs, requests, keyClicks, blankLatest>>

KeyFieldValues == { <<>>, <<"\t", " ">>, <<" ", "sk", " ">> }

NonBlank(s) == \E i \in 1..Len(s) : ~IsSpace(s[i])

\* The endpoint override a user may supply with a click ("": none).
EndpointOverrides == {"", "https://llm.example.test/v1"}

\* submitBtn click handler, up to `await fetch(...)`; field is the value of #api-key,
\* override the endpoint override the user supplied (the handler does not read one;
\* the step record keeps it for the clicks that get past the key check).
Submit(field, override) ==
  LET apiKey == trim(field)
      snap == Snapshot(rows)
  IN /\ keyClicks + (IF NonBlank(field) THEN 1 ELSE 0) <= MaxSubmits
     /\ apiKey # <<>> => Len(subs) < MaxSubmits
     /\ keyClicks' = keyClicks + (IF NonBlank(field) THEN 1 ELSE 0)
     /\ IF apiKey = <<>>
          THEN /\ errorText' = "API key required."
               /\ UNCHANGED <<subs, requests>>
          ELSE /\ errorText' = ""
               /\ subs' = Append(subs, [pc |-> "fetch", apiKey |-> apiKey, rows |-> snap,
                                        ok |-> FALSE, written |-> <<>>, threw |-> FALSE])
               /\ requests' = fetch(requests, RequestOf(apiKey, snap))
     /\ blankLatest' = (apiKey = <<>>)
     /\ last' = [Step("submit", IF apiKey = <<>> THEN 0 ELSE Len(subs) + 1, FALSE, NoData)
                   EXCEPT !.field = field, !.threw = (apiKey = <<>>),
                          !.override = IF apiKey = <<>> THEN "" ELSE override]
     /\ UNCHANGED <<headCells, rows, edits>>

\* `await fetch(...)` rejects: the catch shows the error's message.
FetchReject(i) ==
  /\ i \in 1..Len(subs)
  /\ subs[i].pc = "fetch"
  /\ subs' = [subs EXCEPT ![i] = Failed(<<>>)]
  /\ errorText' = "Failed to fetch"
  /\ last' = [Step("fetchReject", i, FALSE, NoData) EXCEPT !.threw = TRUE]
  /\ UNCHANGED <<headCells, rows, requests, keyClicks, edits, blankLatest>>

\* `await fetch(...)` resolves to a response with res.ok = ok; the handler
\* goes on to `await res.json()`.
FetchResolve(i, ok) ==
  /\ i \in 1..Len(subs)
  /\ subs[i].pc = "fetch"
  /\ subs' = [subs EXCEPT ![i].pc = "json", ![i].ok = ok]
  /\ last' = Step("fetchResolve", i, ok, NoData)
  /\ UNCHANGED <<headCells, rows, errorText, requests, keyClicks, edits, blankLatest>>

\* `await res.json()` rejects (the body is not JSON).
JsonReject(i) ==
  /\ i \in 1..Len(subs)
  /\ subs[i].pc = "json"
  /\ subs' = [subs EXCEPT ![i] = Failed(<<>>)]
  /\ errorText' = "Unexpected end of JSON input"
  /\ last' = [Step("jsonReject", i, subs[i].ok, NoData) EXCEPT !.threw = TRUE]
  /\ UNCHANGED <<headCells, rows, requests, keyClicks, edits, blankLatest>>

\* `await res.json()` resolves to data: the rest of the handler runs to its end.
JsonResolve(i, ok, data) ==
  /\ i \in 1..Len(subs)
  /\ subs[i].pc = "json"
  /\ subs[i].ok = ok
  /\ LET r == HandleData(subs[i].ok, data, headCells, rows)
     IN /\ headCells' = r.head
        /\ rows' = r.rows
        /\ errorText' = IF r.err.threw THEN r.err.message ELSE errorText
        /\ subs' = [subs EXCEPT ![i] = IF r.err.threw
                                          THEN Failed(WrittenCells(r.written, r.rows))
                                          ELSE Returned(WrittenCells(r.written, r.rows))]
        /\ last' = [Step("jsonResolve", i, subs[i].ok, data) EXCEPT !.threw = r.err.threw]
  /\ UNCHANGED <<requests, keyClicks, edits, blankLatest>>

Next ==
  \/ AddRow
  \/ \E r \in 1..MaxRows, c \in {1, 2}, t \in CellTexts : EditCell(r, c, t)
  \/ \E field \in KeyFieldValues, override \in EndpointOverrides : Submit(field, override)
  \/ \E i \in 1..MaxSubmits : FetchReject(i)
  \/ \E i \in 1..MaxSubmits, ok \in BOOLEAN : FetchResolve(i, ok)
  \/ \E i \in 1..MaxSubmits : JsonReject(i)
  \/ \E i \in 1..MaxSubmits, ok \in BOOLEAN : \E data \in DataValues(ok) : JsonResolve(i, ok, data)

Spec == Init /\ [][Next]_vars

\* The endpoint eventually answers or fails: every awaited promise of every
\* invocation is eventually settled.
Settle(i) ==
  \/ FetchReject(i)
  \/ \E ok \in BOOLEAN : FetchResolve(i, ok)
  \/ JsonReject(i)
  \/ \E ok \in BOOLEAN : \E data \in DataValues(ok) : JsonResolve(i, ok, data)

\* The clicks and the settlements, without the cell edits: what a cell holds
\* decides nothing about whether an invocation returns.
NextNoEdit ==
  \/ AddRow
  \/ \E field \in KeyFieldValues, override \in EndpointOverrides : Submit(field, override)
  \/ \E i \in 1..MaxSubmits : Settle(i)

FairSpec == Init /\ [][NextNoEdit]_vars /\ \A i \in 1..MaxSubmits : WF_vars(Settle(i))

----------------------------------------------------------------------------
\* Reading the table

\* String.prototype.split('\n') on a cell text; the empty text reads as no line.
RECURSIVE SplitNL(_, _)
SplitNL(s, cur) ==
  IF s = <<>> THEN <<cur>>
  ELSE IF Head(s) = "\n" THEN <<cur>> \o SplitNL(Tail(s), <<>>)
  ELSE SplitNL(Tail(s), Append(cur, Head(s)))

Lines(s) == IF s = <<>> THEN <<>> ELSE SplitNL(s, <<>>)

\* The two output cells of a row (empty while the row has no output cells).
ThreatCells(row) ==
  IF Len(row.cells) >= 4 THEN <<row.cells[3], row.cells[4]>> ELSE <<EmptyText, EmptyText>>

\* The threats a row shows: the lines of its type cell paired with the lines
\* of its description cell.
ThreatsOf(row) ==
  LET ts == Lines(ThreatCells(row)[1])
      ds == Lines(ThreatCells(row)[2])
  IN IF Len(ts) # Len(ds) THEN <<"unpaired">>
     ELSE [k \in 1..Len(ts) |-> [type |-> ts[k], description |-> ds[k]]]

HasThreats(row) == ThreatCells(row) # <<EmptyText, EmptyText>>

\* The step from the current state is the end of invocation i's `await res.json()`.
Resolving(i) ==
  /\ i \in 1..Len(subs)
  /\ subs[i].pc = "json"
  /\ subs'[i].pc = "done"
  /\ last'.op = "jsonResolve"
  /\ last'.sub = i

\* The response of the step just taken carried a payload text that parsed.
Parsed(step) ==
  /\ step.op = "jsonResolve"
  /\ step.ok
  /\ ~step.data.isNull
  /\ step.data.hasOutput
  /\ step.data.text.valid

ItemsOf(step) == step.data.text.items

\* The positions in items of the entries for row index n.
EntriesFor(items, n) == {j \in 1..Len(items) : items[j].index = n}

----------------------------------------------------------------------------
\* Claims

\* C1: a submission whose response payload text is not valid JSON leaves the
\* header and every row (cells and number of rows) as they were and sets the
\* error message.
C1_InvalidJsonLeavesRows ==
  [][\A i \in 1..MaxSubmits :
       (Resolving(i) /\ last'.ok /\ ~last'.data.isNull /\ last'.data.hasOutput
          /\ ~last'.data.text.valid)
       => (rows' = rows /\ headCells' = headCells
           /\ errorText' = "Failed to parse AI response.")]_vars

\* An invalid payload was handled while a row showed threats of an earlier run.
C1_Witness ==
  /\ last.op = "jsonResolve" /\ last.ok /\ last.data.hasOutput /\ ~last.data.text.valid
  /\ errorText = "Failed to parse AI response."
  /\ \E k \in 1..Len(rows) : HasThreats(rows[k])

\* C2 (as claimed): an entry whose index names no row is skipped; every other
\* entry of the response is applied to its row, and no error message is set.
C2_OutOfRangeEntrySkipped ==
  [][\A i \in 1..MaxSubmits :
       (Resolving(i) /\ Parsed(last') /\ last'.data.text.isArray
          /\ (\A j \in 1..Len(ItemsOf(last')) : ItemsOf(last')[j].hasThreats)
          /\ (\E j \in 1..Len(ItemsOf(last')) : ItemsOf(last')[j].index + 1 \notin 1..Len(rows)))
       => /\ errorText' = errorText
          /\ Len(rows') = Len(rows)
          /\ \A k \in 1..Len(rows) :
               LET for == EntriesFor(ItemsOf(last'), k - 1)
               IN IF for = {} THEN ThreatCells(rows'[k]) = ThreatCells(rows[k])
                  ELSE \E j \in for : ThreatsOf(rows'[k]) = ItemsOf(last')[j].threats]_vars

\* C3 (as claimed): the response of an invocation leaves the threats of the
\* rows appended after its snapshot unchanged.
C3_LaterRowsUnaffected ==
  [][\A i \in 1..MaxSubmits :
       Resolving(i)
       => \A k \in 1..Len(rows) :
            k > Len(subs[i].rows) =>
              (k \in 1..Len(rows') /\ ThreatCells(rows'[k]) = ThreatCells(rows[k]))]_vars

\* C4: a submit click with an empty or all-white-space key field issues no
\* request, shows the missing-key message and changes no row.
C4_BlankKeyNoRequest ==
  [][(last'.op = "submit" /\ ~NonBlank(last'.field))
       => (requests' = requests /\ subs' = subs /\ errorText' = "API key required."
           /\ rows' = rows /\ headCells' = headCells)]_vars

\* A white-space key field was submitted while the table had rows.
C4_Witness ==
  /\ last.op = "submit" /\ last.field = <<"\t", " ">>
  /\ errorText = "API key required."
  /\ Len(rows) > 0
  /\ requests = <<>>

\* C5: the number of requests issued equals the number of submit clicks made
\* with a non-blank key, whatever the outcome of the submissions.
C5_OneRequestPerSubmit == Len(requests) = keyClicks

\* Two submissions were made, both are over, the last one failed.
C5_Witness ==
  /\ keyClicks = 2 /\ Len(requests) = 2
  /\ Len(subs) = 2 /\ \A i \in 1..2 : subs[i].pc = "done"
  /\ errorText # ""

\* The messages the handler shows when the response carries no provider message.
GenericMessages ==
  {"Request failed", "Failed to fetch", "Unexpected end of JSON input",
   "Cannot read properties of null (reading 'error')"}

\* The step from the current state ends invocation i by a failed request or a
\* response with a non-success status.
TransportFailure(i) ==
  /\ i \in 1..Len(subs)
  /\ subs'[i].pc = "done"
  /\ last'.sub = i
  /\ \/ subs[i].pc = "fetch" /\ last'.op = "fetchReject"
     \/ subs[i].pc = "json" /\ ~subs[i].ok /\ last'.op \in {"jsonReject", "jsonResolve"}

CarriesMessage(step) ==
  step.op = "jsonResolve" /\ ~step.data.isNull /\ step.data.message # ""

\* C6: a failed request or a non-success status ends the submission with the
\* provider's message when the response carries one and a generic message
\* otherwise, and changes neither the rows nor the header.
C6_TransportErrorLeavesRows ==
  [][\A i \in 1..MaxSubmits :
       TransportFailure(i)
       => /\ rows' = rows /\ headCells' = headCells
          /\ IF CarriesMessage(last') THEN errorText' = last'.data.message
             ELSE errorText' \in GenericMessages]_vars

\* A non-success response with a provider message was handled while a row
\* showed threats.
C6_Witness ==
  /\ last.op = "jsonResolve" /\ ~last.ok /\ last.data.message = "Rate limit exceeded"
  /\ errorText = "Rate limit exceeded"
  /\ \E k \in 1..Len(rows) : HasThreats(rows[k])

\* The payload parsed but is no list of entries with a threats list each.
IllShaped(step) ==
  /\ Parsed(step)
  /\ \/ ~step.data.text.isArray
     \/ \E j \in 1..Len(ItemsOf(step)) : ~ItemsOf(step)[j].hasThreats

\* C7 (as claimed): a payload that is valid JSON of the wrong shape sets an
\* error message and changes no row's threats.
C7_IllShapedLeavesRows ==
  [][\A i \in 1..MaxSubmits :
       (Resolving(i) /\ IllShaped(last'))
       => /\ errorText' # ""
          /\ Len(rows') = Len(rows)
          /\ \A k \in 1..Len(rows) : ThreatCells(rows'[k]) = ThreatCells(rows[k])]_vars

\* The payload is a list of entries with a threats list each, every index
\* names a row of the table, no two entries name the same row.
WellFormed(step, rs) ==
  /\ Parsed(step)
  /\ step.data.text.isArray
  /\ \A j \in 1..Len(ItemsOf(step)) :
       /\ ItemsOf(step)[j].hasThreats
       /\ ItemsOf(step)[j].index + 1 \in 1..Len(rs)
       /\ \A j2 \in 1..Len(ItemsOf(step)) :
            ItemsOf(step)[j2].index = ItemsOf(step)[j].index => j2 = j

\* C8: after a well-formed response is applied, a row named by an entry shows
\* that entry's threats in order, and a row named by no entry keeps its cells.
C8_WellFormedApplied ==
  [][\A i \in 1..MaxSubmits :
       (Resolving(i) /\ WellFormed(last', rows))
       => /\ Len(rows') = Len(rows)
          /\ \A k \in 1..Len(rows) :
               LET for == EntriesFor(ItemsOf(last'), k - 1)
               IN IF for = {} THEN ThreatCells(rows'[k]) = ThreatCells(rows[k])
                  ELSE \A j \in for : ThreatsOf(rows'[k]) = ItemsOf(last')[j].threats]_vars

\* A well-formed response naming only row 0, with two threats, was applied to
\* a table of two rows whose second row shows threats of an earlier run.
C8_Witness ==
  /\ WellFormed(last, rows)
  /\ Len(rows) = 2
  /\ ItemsOf(last) = <<[index |-> 0, hasThreats |-> TRUE, threats |-> <<T2, T3>>]>>
  /\ ThreatsOf(rows[1]) = <<T2, T3>>
  /\ ThreatsOf(rows[2]) = <<T1>>

\* C9 (as claimed): at most one invocation is awaiting its response.
C9_OneAwaiting ==
  Cardinality({i \in 1..Len(subs) : subs[i].pc \in {"fetch", "json"}}) <= 1

\* C10 (as claimed): once two submissions are over, a row that the later
\* submission's response wrote shows what that response wrote, not the result
\* of the earlier submission.
C10_LaterSubmissionWins ==
  (Len(subs) = 2 /\ subs[1].pc = "done" /\ subs[2].pc = "done")
  => \A k \in DOMAIN subs[2].written : ThreatCells(rows[k]) = subs[2].written[k]

\* C11 (as claimed): the two output columns appear only in a step in which a
\* submission finishes without an error (so they are absent as long as no
\* submission has finished successfully).
C11_ColumnsOnlyAfterSuccess ==
  [][headCells' # headCells => (last'.op = "jsonResolve" /\ ~last'.threw)]_vars

\* The step from the current state is a failure of a submission: a click with
\* a blank key, a rejected fetch, a rejected res.json(), or a throw after it.
FailureStep ==
  /\ last' # last
  /\ last'.threw
  /\ last'.op \in {"submit", "fetchReject", "jsonReject", "jsonResolve"}

Awaiting(i) == i \in 1..Len(subs) /\ subs[i].pc \in {"fetch", "json"}

Finished(i) == i \in 1..Len(subs) /\ subs[i].pc = "done"

\* C12: every failure of a submission leaves a non-empty message in the error
\* region, and every invocation awaiting the endpoint eventually returns,
\* given that the endpoint eventually answers or fails.
C12_FailuresShownAndReturn ==
  /\ [][FailureStep => errorText' # ""]_vars
  /\ \A i \in 1..MaxSubmits : Awaiting(i) ~> Finished(i)

\* A submission failed while applying entries (after an earlier one had been
\* applied), its message is shown and every invocation has returned.
C12_Witness ==
  /\ last.op = "jsonResolve" /\ last.threw /\ Parsed(last)
  /\ errorText # ""
  /\ Len(subs) = 2 /\ Finished(1) /\ Finished(2)
  /\ \E k \in 1..Len(rows) : HasThreats(rows[k])

\* C13 (as claimed): whenever the most recent submit click got past the key
\* check and its invocation has returned without an error, the error region
\* is empty.
C13_EmptyAfterLatestSuccess ==
  (Len(subs) > 0 /\ ~blankLatest /\ Finished(Len(subs)) /\ ~subs[Len(subs)].threw)
  => errorText = ""

\* The position of the first entry of items that throws on a table of n rows
\* (Len(items) + 1: none does).
FirstBad(items, n) ==
  LET bad == {j \in 1..Len(items) : ~items[j].hasThreats \/ items[j].index + 1 \notin 1..n}
  IN IF bad = {} THEN Len(items) + 1 ELSE CHOOSE j \in bad : \A j2 \in bad : j <= j2

\* The positions of the entries applied to the row at position k: those for
\* its index before the first entry that throws.
AppliedTo(items, n, k) == {j \in 1..(FirstBad(items, n) - 1) : items[j].index = k - 1}

LastOf(S) == CHOOSE j \in S : \A j2 \in S : j2 <= j

\* C14: when a response is applied to a row that already shows threats, the
\* row afterwards shows exactly the list of the entry applied to it (the last
\* one, if several name it): nothing of the earlier result remains.
C14_ReplacedWholesale ==
  [][\A i \in 1..MaxSubmits :
       (Resolving(i) /\ Parsed(last') /\ last'.data.text.isArray)
       => \A k \in 1..Len(rows) :
            LET applied == AppliedTo(ItemsOf(last'), Len(rows), k)
            IN (HasThreats(rows[k]) /\ applied # {})
               => /\ k \in 1..Len(rows')
                  /\ ThreatsOf(rows'[k]) = ItemsOf(last')[LastOf(applied)].threats]_vars

\* Two responses wrote row 0 one after the other, with different non-empty
\* lists; the row shows what the second wrote.
C14_Witness ==
  /\ Len(subs) = 2 /\ Finished(1) /\ Finished(2)
  /\ last.op = "jsonResolve" /\ last.sub = 2
  /\ 1 \in DOMAIN subs[1].written /\ 1 \in DOMAIN subs[2].written
  /\ subs[1].written[1] # <<EmptyText, EmptyText>>
  /\ subs[2].written[1] # <<EmptyText, EmptyText>>
  /\ subs[1].written[1] # subs[2].written[1]
  /\ ThreatCells(rows[1]) = subs[2].written[1]

\* The two input cells of a row.
InputCells(row) == <<row.cells[1], row.cells[2]>>

\* The step from the current state is a submit click that got past the key
\* check; its invocation is the last of subs'.
Triggering == last'.op = "submit" /\ last'.sub > 0 /\ Len(subs') = Len(subs) + 1

\* C15: an add-row click appends one empty row and leaves the rows before it
\* as they are; no other step changes the number of rows or moves a row (the
\* input cells stay in place, an edit changes one row); a snapshot numbers
\* the rows 0..N-1 in row order.
C15_RowsOnlyAppended ==
  [][/\ last'.op = "addRow"
          => /\ Len(rows') = Len(rows) + 1
             /\ \A k \in 1..Len(rows) : rows'[k] = rows[k]
             /\ InputCells(rows'[Len(rows')]) = <<EmptyText, EmptyText>>
     /\ last'.op # "addRow"
          => /\ Len(rows') = Len(rows)
             /\ last'.op # "editCell"
                  => \A k \in 1..Len(rows) : InputCells(rows'[k]) = InputCells(rows[k])
             /\ last'.op = "editCell"
                  => Cardinality({k \in 1..Len(rows) : rows'[k] # rows[k]}) <= 1
     /\ Triggering
          => LET snap == subs'[Len(subs')].rows
             IN /\ Len(snap) = Len(rows)
                /\ \A k \in 1..Len(snap) : snap[k].index = k - 1]_vars

\* A second submission took its snapshot of two rows, one of them edited.
C15_Witness ==
  /\ last.op = "submit" /\ last.sub = 2
  /\ Len(rows) = 2 /\ edits = 1
  /\ Len(subs[2].rows) = 2
  /\ subs[2].rows[2].index = 1

\* The prompt line a row is sent as, from its index and two texts.
ExpectedLine(n, surface, description) ==
  <<"#", DigitAtoms[n + 1], ": ">> \o surface \o <<" - ">> \o description

\* C16 (as claimed): the snapshot of a submission holds, for every row, only
\* its index and the texts of its two input cells as last edited.
C16_SnapshotAsEdited ==
  [][Triggering
       => LET snap == subs'[Len(subs')].rows
          IN /\ Len(snap) = Len(rows)
             /\ \A k \in 1..Len(snap) :
                  /\ DOMAIN snap[k] = {"index", "surface", "description"}
                  /\ snap[k].index = k - 1
                  /\ snap[k].surface = rows[k].cells[1]
                  /\ snap[k].description = rows[k].cells[2]]_vars

\* C16 (amended): the snapshot holds, for every row, only its index and the
\* texts of its two input cells as last edited with the white space at both
\* ends removed; the prompt is made of these and holds no threats, also when
\* the rows show threats.
C16_SnapshotTrimmed ==
  [][Triggering
       => LET snap == subs'[Len(subs')].rows
          IN /\ Len(snap) = Len(rows)
             /\ \A k \in 1..Len(snap) :
                  /\ DOMAIN snap[k] = {"index", "surface", "description"}
                  /\ snap[k].index = k - 1
                  /\ snap[k].surface = trim(rows[k].cells[1])
                  /\ snap[k].description = trim(rows[k].cells[2])
             /\ requests'[Len(requests')].input.surfaces =
                  joinNL([k \in 1..Len(rows) |->
                            ExpectedLine(k - 1, trim(rows[k].cells[1]), trim(rows[k].cells[2]))])]_vars

\* A second submission took its snapshot while row 0 showed threats and held
\* an edited surface with white space around it.
C16_Witness ==
  /\ last.op = "submit" /\ last.sub = 2
  /\ Len(rows) >= 1 /\ HasThreats(rows[1])
  /\ rows[1].cells[1] = <<" ", "api", " ">>
  /\ subs[2].rows[1].surface = <<"api">>

IsCategory(t) == \E c \in 1..Len(categories) : t = <<categories[c]>>

\* The types of a threats list, in order.
TypesOf(threats) == [n \in 1..Len(threats) |-> threats[n].type]

\* C17: a well-formed response is applied without an error whatever its type
\* strings are, and the lines of a named row's type cell read back as the
\* entry's type strings, unchanged and in order.
C17_TypesStoredVerbatim ==
  [][\A i \in 1..MaxSubmits :
       (Resolving(i) /\ WellFormed(last', rows))
       => /\ ~last'.threw
          /\ errorText' = errorText
          /\ \A j \in 1..Len(ItemsOf(last')) :
               LET k == ItemsOf(last')[j].index + 1
               IN Lines(ThreatCells(rows'[k])[1]) = TypesOf(ItemsOf(last')[j].threats)]_vars

\* A response with a type outside the taxonomy and the type "trojan" was
\* applied without an error; the row's type cell reads back both strings.
C17_Witness ==
  /\ WellFormed(last, rows) /\ ~last.threw
  /\ ~IsCategory(<<"not_a_category">>) /\ IsCategory(<<"trojan">>)
  /\ \E k \in 1..Len(rows) :
       Lines(ThreatCells(rows[k])[1]) = << <<"not_a_category">>, <<"trojan">> >>

\* C18 (as claimed): the request of a submission goes to the endpoint
\* override when the user supplied one, to the default endpoint otherwise.
C18_OverrideUsed ==
  [][Triggering
       => requests'[Len(requests')].url =
            IF last'.override # "" THEN last'.override ELSE DefaultEndpoint]_vars

\* Every body row is as wide as the header row, which has 2 or 4 cells, and
\* no write to an output cell has found the cell missing.
CellsMatchHeader ==
  /\ headCells \in {2, 4}
  /\ \A k \in 1..Len(rows) : Len(rows[k].cells) = headCells
  /\ errorText # "Cannot set properties of undefined (setting 'innerText')"

\* C19: in every reachable state every body row has as many cells as the
\* header row, 2 or 4, and the number never decreases.
C19_CellsMatchHeader ==
  /\ CellsMatchHeader
  /\ [][CellsMatchHeader' /\ headCells' >= headCells]_vars

\* A row was added after the output columns had appeared, while a request
\* was outstanding; it has four cells.
C19_Witness ==
  /\ last.op = "addRow"
  /\ headCells = 4
  /\ Len(rows) = 2 /\ Len(rows[2].cells) = 4
  /\ \E i \in 1..Len(subs) : Awaiting(i)

\* C20: no step of the submit handler changes the number of rows or the two
\* input cells of a row; a well-formed response writes the row at the index
\* it names also when the row's input cells are no longer what was sent.
C20_InputsUntouched ==
  [][/\ last'.op \in {"submit", "fetchReject", "fetchResolve", "jsonReject", "jsonResolve"}
          => /\ Len(rows') = Len(rows)
             /\ \A k \in 1..Len(rows) : InputCells(rows'[k]) = InputCells(rows[k])
     /\ \A i \in 1..MaxSubmits :
          (Resolving(i) /\ WellFormed(last', rows))
          => \A j \in 1..Len(ItemsOf(last')) :
               LET k == ItemsOf(last')[j].index + 1
               IN (k <= Len(subs[i].rows)
                     /\ <<subs[i].rows[k].surface, subs[i].rows[k].description>>
                          # <<trim(rows[k].cells[1]), trim(rows[k].cells[2])>>)
                  => ThreatsOf(rows'[k]) = ItemsOf(last')[j].threats]_vars

\* A row was edited after the request with its empty surface had been sent;
\* the response was applied to it and the edit is still in place.
C20_Witness ==
  /\ last.op = "jsonResolve" /\ ~last.threw
  /\ Len(rows) = 1
  /\ requests[last.sub].input.surfaces = ExpectedLine(0, <<>>, <<>>)
  /\ rows[1].cells[1] = <<" ", "api", " ">>
  /\ 1 \in DOMAIN subs[last.sub].written
  /\ HasThreats(rows[1])

====
